---- MODULE Spec2Model ----
(***************************************************************************)
(* Model of the three-stage content generation chain (chains.py), its      *)
(* configuration (config.py) and its command line front end (cli.py).      *)
(*                                                                         *)
(* Texts (topics, templates, prompts, generated outputs) are sequences of  *)
(* string tokens.  A placeholder of a template is the token "{name}".      *)
(* The backend is the deterministic stub that answers "ECHO:" + prompt,    *)
(* and every backend call may also fail.                                   *)
(***************************************************************************)
EXTENDS Integers, Sequences, FiniteSets, TLC

\* ------------------------------------------------------------------ bounds
MaxRuns == 2        \* generate_content invocations on one instance
MaxClock == 2       \* the last second of the clock

\* ------------------------------------------------------------------- state
VARIABLES
    cfg,        \* the Config class attributes read from the environment
    dirExists,  \* OUTPUT_DIR exists
    pc,         \* "start", "ready", "running", "returned", "failed", "aborted"
    path,       \* entry path: "none", "lib", "main", "batch", "interactive"
    exit,       \* process exit status: "none", "0", "1", "2"
    self,       \* the ContentGenerationChain instance
    validated,  \* Config.validate() returned without raising
    topic,      \* topic of the current run
    known,      \* the chain's known values of the current run
    stage,      \* next stage to execute, 1..NumStages+1; 0 after a failure
    calls,      \* backend calls of the current run
    result,     \* the mapping the caller received from the last run
    error,      \* the error the caller received
    files,      \* OUTPUT_DIR: file name -> content
    writes,     \* every _save_to_file call so far, with its outcome
    returned,   \* (topic, result) pairs this instance has returned
    clock,      \* the second datetime.now() last returned
    runs        \* generate_content invocations so far

vars ==
    <<cfg, dirExists, pc, path, exit, self, validated, topic, known, stage,
      calls, result, error, files, writes, returned, clock, runs>>

\* --------------------------------------------------------------- config.py
None == "None"
TEMPERATURE == 7            \* tenths: 0.7
MAX_TOKENS == 1000
OLLAMA_MODEL == "llama2"
ANTHROPIC_MODEL == "claude-3-sonnet-20240229"
AVAILABLE_STYLES == <<"formal", "informal", "humorous", "professional">>
DEFAULT_STYLE == "informal"

\* Values of an API key variable: unset, set empty, set
KeyValues == {None, "", "sk-key"}

\* Python truthiness of an os.getenv() value
Truthy(v) == v \notin {None, ""}

Range(s) == {s[i] : i \in 1..Len(s)}

\* Config.validate, first statement: TRUE when no ValueError is raised
validate(c) ==
    ~(~c.USE_OLLAMA /\ ~Truthy(c.OPENAI_API_KEY) /\ ~Truthy(c.ANTHROPIC_API_KEY))

get_llm_type(c) ==
    IF c.USE_OLLAMA THEN "ollama"
    ELSE IF c.USE_ANTHROPIC THEN "anthropic"
    ELSE "openai"

\* --------------------------------------------------------------- chains.py
\* The keyword arguments each backend constructor is given.  "passed" names
\* them; a field that is not passed holds its empty value.
NoLLM ==
    [type |-> "none", passed |-> {}, model |-> "", temperature |-> 0,
     max_tokens |-> 0, api_key |-> None]

_initialize_llm(c) ==
    LET llm_type == get_llm_type(c) IN
    IF llm_type = "ollama" THEN
        [type |-> "ollama", passed |-> {"model", "temperature"},
         model |-> OLLAMA_MODEL, temperature |-> TEMPERATURE,
         max_tokens |-> 0, api_key |-> None]
    ELSE IF llm_type = "anthropic" THEN
        [type |-> "anthropic", passed |-> {"model", "temperature", "api_key"},
         model |-> ANTHROPIC_MODEL, temperature |-> TEMPERATURE,
         max_tokens |-> 0, api_key |-> c.ANTHROPIC_API_KEY]
    ELSE
        [type |-> "openai", passed |-> {"temperature", "max_tokens", "api_key"},
         model |-> "", temperature |-> TEMPERATURE,
         max_tokens |-> MAX_TOKENS, api_key |-> c.OPENAI_API_KEY]

\* A backend can answer only when it needs no key or was given one
CredentialsUsable(llm) == llm.type = "ollama" \/ Truthy(llm.api_key)

idea_template == <<"IDEA_HEAD", "{topic}", "IDEA_TAIL">>
post_template == <<"POST_HEAD", "{blog_idea}", "POST_STYLE", "{style}", "POST_TAIL">>
social_template == <<"SOCIAL_HEAD", "{blog_post}", "SOCIAL_TAIL">>

\* placeholder token -> variable name
Placeholders ==
    [tok \in {"{topic}", "{style}", "{blog_idea}", "{blog_post}", "{social_post}"} |->
        CASE tok = "{topic}" -> "topic"
          [] tok = "{style}" -> "style"
          [] tok = "{blog_idea}" -> "blog_idea"
          [] tok = "{blog_post}" -> "blog_post"
          [] tok = "{social_post}" -> "social_post"]

TemplateVars(template) ==
    {Placeholders[tok] : tok \in Range(template) \cap DOMAIN Placeholders}

\* a first stage that stores its answer under another key than stage 2 reads
idea_chain_misnamed ==
    [prompt |-> [input_variables |-> {"topic"}, template |-> idea_template],
     output_key |-> "idea"]

\* the three LLMChain stages, in the order given to SequentialChain
idea_chain ==
    [prompt |-> [input_variables |-> {"topic"}, template |-> idea_template],
     output_key |-> "blog_idea"]
post_chain ==
    [prompt |-> [input_variables |-> {"blog_idea", "style"}, template |-> post_template],
     output_key |-> "blog_post"]
social_chain ==
    [prompt |-> [input_variables |-> {"blog_post"}, template |-> social_template],
     output_key |-> "social_post"]

overall_chain ==
    [chains |-> <<idea_chain, post_chain, social_chain>>,
     input_variables |-> {"topic", "style"},
     output_variables |-> <<"blog_idea", "blog_post", "social_post">>]

NumStages == Len(overall_chain.chains)

\* PromptTemplate.format: every placeholder replaced by its value
RECURSIVE Render(_, _)
Render(template, values) ==
    IF template = <<>> THEN <<>>
    ELSE LET tok == Head(template) IN
         (IF tok \in DOMAIN Placeholders
            THEN values[Placeholders[tok]]
            ELSE <<tok>>) \o Render(Tail(template), values)

\* the stub backend
Complete(prompt) == <<"ECHO:">> \o prompt

\* a stage that stores the preview of the text instead of the text
StageOutput_preview(text) == SubSeq(text, 1, 2)

\* what a stage stores under its output key for a generated text
StageOutput(text) == text

\* dict.update(): known values with one key set
Update(kv, key, value) ==
    [k \in DOMAIN kv \cup {key} |-> IF k = key THEN value ELSE kv[k]]

\* a chain that keeps the known values of its previous run
ChainInputs_stale(t, s) == ("topic" :> t) @@ ("style" :> <<s>>) @@ known

\* the dict generate_content passes to the chain
ChainInputs(t, s) == ("topic" :> t) @@ ("style" :> <<s>>)

\* the mapping with no key: nothing was returned
NoResult == [k \in {} |-> <<>>]

\* what the chain call hands back: the inputs and the output variables
ChainResult(inputs, kv) ==
    [k \in DOMAIN inputs \cup (Range(overall_chain.output_variables) \cap DOMAIN kv) |->
        IF k \in Range(overall_chain.output_variables) THEN kv[k] ELSE inputs[k]]

\* a generate_content that hands back what the chain had produced so far
RaisedResult_partial(kv) == kv

\* what the caller of generate_content sees when the chain raised
RaisedResult(kv) == NoResult

\* a chain that calls the backend again after a failed call
NextStage_retry(i, ok) == IF ok THEN i + 1 ELSE i

\* the stage that runs after a backend call on stage i
NextStage(i, ok) == IF ok THEN i + 1 ELSE 0

\* a _save_to_file that lets the write error through
AfterSave_propagate(w) ==
    IF w \in {"open_failed", "write_failed"} THEN "failed" ELSE "returned"

\* generate_content's outcome after _save_to_file with write outcome w
AfterSave(w) == "returned"

\* the keys _log_intermediate_results and _save_to_file read from the result
ResultKeys == {"blog_idea", "blog_post", "social_post"}

\* the file name _save_to_file derives from the time
FileName(now) == now

\* the text _save_to_file writes into the file
FileContent(t, s, res) ==
    [topic |-> t, style |-> s,
     blog_idea |-> res["blog_idea"], blog_post |-> res["blog_post"],
     social_post |-> res["social_post"]]

\* a file whose writing stopped after the header
PartialContent(t, s) ==
    [topic |-> t, style |-> s,
     blog_idea |-> <<>>, blog_post |-> <<>>, social_post |-> <<>>]

WriteOutcomes == {"ok", "open_failed", "write_failed"}

\* ------------------------------------------------------------------ cli.py
\* int() on the style choice typed in interactive mode
IntOf == [s \in {"0", "1", "2", "3", "4", "5"} |->
            CASE s = "0" -> 0 [] s = "1" -> 1 [] s = "2" -> 2
              [] s = "3" -> 3 [] s = "4" -> 4 [] s = "5" -> 5]

InteractiveStyle(choice) ==
    LET style_choice == IF choice = "" THEN "2" ELSE choice IN
    IF style_choice \notin DOMAIN IntOf THEN DEFAULT_STYLE
    ELSE LET style_index == IntOf[style_choice] - 1 IN
         IF 0 <= style_index /\ style_index < Len(AVAILABLE_STYLES)
            THEN AVAILABLE_STYLES[style_index + 1]
            ELSE DEFAULT_STYLE

\* str.strip() on the typed topic: blank tokens removed from both ends
RECURSIVE LStrip(_)
LStrip(t) == IF t # <<>> /\ Head(t) = " " THEN LStrip(Tail(t)) ELSE t

RECURSIVE RStrip(_)
RStrip(t) ==
    IF t # <<>> /\ t[Len(t)] = " " THEN RStrip(SubSeq(t, 1, Len(t) - 1)) ELSE t

Strip(t) == RStrip(LStrip(t))

\* ------------------------------------------------------------------ inputs
Topics == {<<"space">>, <<"ai">>}
TypedTopics == {<<>>, <<" ">>, <<"space">>, <<" ", "ai", " ">>}
StyleInputs == {"informal", "humorous", "baroque"}
ChoiceInputs == {"", "1", "3", "4", "5", "0", "x"}

runVars == <<topic, known, stage, calls, result, runs>>
diskVars == <<files, writes, clock>>

Configs ==
    [USE_OLLAMA : BOOLEAN, USE_ANTHROPIC : BOOLEAN,
     OPENAI_API_KEY : KeyValues, ANTHROPIC_API_KEY : KeyValues,
     SAVE_TO_FILE : BOOLEAN]

Init ==
    /\ cfg \in Configs
    /\ dirExists \in BOOLEAN
    /\ pc = "start"
    /\ path = "none"
    /\ exit = "none"
    /\ self = [constructed |-> FALSE, style |-> "", llm |-> NoLLM]
    /\ validated = FALSE
    /\ topic = <<>>
    /\ known = NoResult
    /\ stage = 0
    /\ calls = <<>>
    /\ result = NoResult
    /\ error = "none"
    /\ files = [f \in {} |-> 0]
    /\ writes = <<>>
    /\ returned = {}
    /\ clock = 0
    /\ runs = 0

\* ------------------------------------------------------------ construction
\* construction (or the command line before it) raised: nothing was built
Abort(p, err, code, v, d) ==
    /\ pc' = "aborted"
    /\ path' = p
    /\ error' = err
    /\ exit' = code
    /\ validated' = v
    /\ dirExists' = d
    /\ UNCHANGED <<cfg, self, runVars, diskVars, returned>>

\* generate_content up to the chain call: a fresh mapping of topic and style
StartRun(t, s, p) ==
    LET inputs == ChainInputs(t, s)
        ok == overall_chain.input_variables \subseteq DOMAIN inputs
    IN /\ topic' = t
       /\ known' = inputs
       /\ calls' = <<>>
       /\ runs' = runs + 1
       /\ stage' = IF ok THEN 1 ELSE 0
       /\ pc' = IF ok THEN "running" ELSE "failed"
       /\ error' = IF ok THEN "none" ELSE "MissingVariable"
       /\ result' = IF ok THEN NoResult ELSE RaisedResult(inputs)
       /\ exit' = IF ok \/ p = "lib" THEN "none" ELSE "1"

\* ContentGenerationChain.__init__, followed at once by generate_content(t)
\* when run is TRUE (the command line paths)
Construct(s, p, t, run) ==
    LET code == IF p = "lib" THEN "none" ELSE "1"
        llm == _initialize_llm(cfg)
        madeDir == dirExists \/ cfg.SAVE_TO_FILE
    IN \/ /\ ~validate(cfg)
          /\ Abort(p, "ValueError", code, FALSE, dirExists)
       \/ /\ validate(cfg)
          /\ cfg.SAVE_TO_FILE /\ ~dirExists      \* os.makedirs may fail
          /\ Abort(p, "OSError", code, FALSE, FALSE)
       \/ /\ validate(cfg)
          /\ ~CredentialsUsable(llm)       \* the client library may refuse
          /\ Abort(p, "AuthError", code, TRUE, madeDir)
       \/ /\ validate(cfg)
          /\ validated' = TRUE
          /\ dirExists' = madeDir
          /\ self' = [constructed |-> TRUE, style |-> s, llm |-> llm]
          /\ path' = p
          /\ IF run
                THEN StartRun(t, s, p)
                ELSE /\ pc' = "ready"
                     /\ UNCHANGED <<runVars, error, exit>>
          /\ UNCHANGED <<cfg, diskVars, returned>>

\* create_content_chain(style) called by a library user
LibCreate ==
    /\ pc = "start"
    /\ \E s \in StyleInputs : Construct(s, "lib", <<>>, FALSE)

\* generate_content(topic) called by a library user on the instance
LibGenerate ==
    /\ path = "lib"
    /\ pc \in {"ready", "returned", "failed"}
    /\ runs < MaxRuns
    /\ \E t \in Topics : StartRun(t, self.style, "lib")
    /\ UNCHANGED <<cfg, dirExists, path, self, validated, diskVars, returned>>

\* main(): argparse refuses a --style outside choices
MainArgError ==
    /\ pc = "start"
    /\ \E s \in StyleInputs :
         /\ s \notin Range(AVAILABLE_STYLES)
         /\ Abort("main", "ArgError", "2", FALSE, dirExists)

\* main() with --topic and without --interactive: batch_mode
MainBatch ==
    /\ pc = "start"
    /\ \E t \in Topics, s \in StyleInputs :
         /\ s \in Range(AVAILABLE_STYLES)
         /\ Construct(s, "batch", t, TRUE)

\* main() with --interactive or without --topic: interactive_mode
MainInteractive ==
    /\ pc = "start"
    /\ \E typed \in TypedTopics, choice \in ChoiceInputs :
         LET t == Strip(typed) IN
         IF t = <<>>
            THEN Abort("interactive", "EmptyTopic", "1", FALSE, dirExists)
            ELSE Construct(InteractiveStyle(choice), "interactive", t, TRUE)

\* ---------------------------------------------------------------- the run
\* the except branch of generate_content: log and re-raise
Raise(err) ==
    /\ pc' = "failed"
    /\ error' = err
    /\ result' = RaisedResult(known)
    /\ exit' = IF path = "lib" THEN "none" ELSE "1"

\* one LLMChain of the SequentialChain: render the prompt, call the backend,
\* store the answer under the output key
RunStage ==
    /\ pc = "running"
    /\ stage \in 1..NumStages
    /\ LET ch == overall_chain.chains[stage]
           renderable ==
               /\ ch.prompt.input_variables \subseteq DOMAIN known
               /\ TemplateVars(ch.prompt.template) \subseteq ch.prompt.input_variables
       IN IF ~renderable
            THEN /\ Raise("MissingVariable")
                 /\ stage' = 0
                 /\ UNCHANGED <<calls, known>>
            ELSE \E ok \in BOOLEAN :
                   /\ ok => CredentialsUsable(self.llm)
                   /\ LET prompt == Render(ch.prompt.template, known)
                          n == NextStage(stage, ok)
                      IN /\ calls' = Append(calls,
                                [stage |-> stage, prompt |-> prompt,
                                 params |-> self.llm, ok |-> ok])
                         /\ stage' = n
                         /\ known' = IF ok
                                        THEN Update(known, ch.output_key,
                                                    StageOutput(Complete(prompt)))
                                        ELSE known
                         /\ IF n = 0
                               THEN Raise("BackendError")
                               ELSE /\ pc' = "running"
                                    /\ UNCHANGED <<result, error, exit>>
    /\ UNCHANGED <<cfg, dirExists, path, self, validated, topic, runs,
                   diskVars, returned>>

\* the rest of generate_content after the chain returned: log the
\* intermediate results, save them to a file, return the mapping
FinishRun ==
    /\ pc = "running"
    /\ stage = NumStages + 1
    /\ LET res == ChainResult(ChainInputs(topic, self.style), known) IN
       IF ~(ResultKeys \subseteq DOMAIN res)
         THEN /\ Raise("KeyError")
              /\ stage' = 0
              /\ UNCHANGED <<diskVars, returned>>
         ELSE \E w \in (IF cfg.SAVE_TO_FILE THEN WriteOutcomes ELSE {"disabled"}),
                 now \in clock..MaxClock :
                LET name == FileName(now)
                    full == FileContent(topic, self.style, res)
                    part == PartialContent(topic, self.style)
                    after == AfterSave(w)
                IN /\ w = "disabled" => now = clock
                   /\ clock' = now
                   /\ files' = CASE w = "ok" -> Update(files, name, full)
                                  [] w = "write_failed" -> Update(files, name, part)
                                  [] OTHER -> files
                   /\ writes' = IF w = "disabled" THEN writes
                                 ELSE Append(writes,
                                        [run |-> runs, name |-> name,
                                         content |-> full, outcome |-> w])
                   /\ stage' = 0
                   /\ IF after = "returned"
                         THEN /\ pc' = "returned"
                              /\ result' = res
                              /\ returned' = returned \cup
                                    {[topic |-> topic, result |-> res]}
                              /\ exit' = IF path = "lib" THEN "none" ELSE "0"
                              /\ UNCHANGED error
                         ELSE /\ Raise("OSError")
                              /\ UNCHANGED returned
    /\ UNCHANGED <<cfg, dirExists, path, self, validated, topic, known,
                   calls, runs>>

Next ==
    \/ LibCreate
    \/ LibGenerate
    \/ MainArgError
    \/ MainBatch
    \/ MainInteractive
    \/ RunStage
    \/ FinishRun

Spec == Init /\ [][Next]_vars

\* ------------------------------------------------------------------ claims
AllCallsOk == \A i \in DOMAIN calls : calls[i].ok

\* C1: a run whose chain call failed hands no mapping to the caller (no
\* output of an earlier stage is visible) and wrote no result file.
C1_AllOrNothing ==
    pc = "failed" =>
        /\ result = NoResult
        /\ error # "none"
        /\ \A i \in DOMAIN writes : writes[i].run # runs

\* stage 2 failed after stage 1 had produced blog_idea, with saving enabled
C1_Witness ==
    /\ pc = "failed"
    /\ cfg.SAVE_TO_FILE
    /\ Len(calls) = 2 /\ calls[1].ok /\ ~calls[2].ok
    /\ "blog_idea" \in DOMAIN known

\* C2: an instance whose style is none of AVAILABLE_STYLES never makes a
\* backend call.
C2_StyleRejected ==
    (self.constructed /\ self.style \notin Range(AVAILABLE_STYLES)) => calls = <<>>

\* C3: when all three stages succeeded and saving is enabled, the run
\* returns the completed mapping without error, whatever the write did.
C3_PersistenceNonFatal ==
    (cfg.SAVE_TO_FILE /\ Len(calls) = NumStages /\ AllCallsOk /\ pc # "running") =>
        /\ pc = "returned"
        /\ error = "none"
        /\ ResultKeys \subseteq DOMAIN result
        /\ \A k \in ResultKeys : result[k] = known[k]

\* the run returned although its file could not be opened
C3_Witness ==
    /\ pc = "returned"
    /\ writes # <<>>
    /\ writes[Len(writes)].run = runs
    /\ writes[Len(writes)].outcome = "open_failed"
    /\ ResultKeys \subseteq DOMAIN result

\* C4: once Config.validate() has passed, the backend get_llm_type selects
\* has usable credentials.
C4_CredentialsValidated ==
    validated => CredentialsUsable(_initialize_llm(cfg))

\* keys available when stage i is rendered, as the pipeline declares them
DeclaredKeys(i) ==
    overall_chain.input_variables \cup
        {overall_chain.chains[j].output_key : j \in 1..(i - 1)}

\* C5: when stage i is rendered the mapping holds exactly the initial
\* variables and the output keys of stages 1..i-1, the stage's template
\* names only such keys, and output keys are distinct from each other and
\* from the initial variables.
C5_StageVariables ==
    /\ (pc = "running" /\ stage \in 1..NumStages) =>
          /\ DOMAIN known = DeclaredKeys(stage)
          /\ TemplateVars(overall_chain.chains[stage].prompt.template)
                \subseteq DOMAIN known
    /\ \A i \in 1..NumStages :
          overall_chain.chains[i].output_key \notin DeclaredKeys(i)

\* stage 3 is about to be rendered
C5_Witness ==
    /\ pc = "running"
    /\ stage = 3
    /\ DOMAIN known = {"topic", "style", "blog_idea", "blog_post"}

\* the three outputs of the echo backend for topic t and style s, spelled out
EchoIdea(t) == <<"ECHO:", "IDEA_HEAD">> \o t \o <<"IDEA_TAIL">>
EchoPost(t, s) ==
    <<"ECHO:", "POST_HEAD">> \o EchoIdea(t) \o <<"POST_STYLE", s, "POST_TAIL">>
EchoSocial(t, s) ==
    <<"ECHO:", "SOCIAL_HEAD">> \o EchoPost(t, s) \o <<"SOCIAL_TAIL">>

\* C6: the returned mapping holds topic and style and the three echoed
\* outputs, each stage's prompt threaded with the output before it.
C6_Threading ==
    pc = "returned" =>
        /\ DOMAIN result = {"topic", "style", "blog_idea", "blog_post", "social_post"}
        /\ result["topic"] = topic
        /\ result["style"] = <<self.style>>
        /\ result["blog_idea"] = EchoIdea(topic)
        /\ result["blog_post"] = EchoPost(topic, self.style)
        /\ result["social_post"] = EchoSocial(topic, self.style)

\* topic "space", style "humorous" returned
C6_Witness ==
    /\ pc = "returned"
    /\ topic = <<"space">>
    /\ self.style = "humorous"
    /\ result["social_post"] =
          <<"ECHO:", "SOCIAL_HEAD",
            "ECHO:", "POST_HEAD",
            "ECHO:", "IDEA_HEAD", "space", "IDEA_TAIL",
            "POST_STYLE", "humorous", "POST_TAIL",
            "SOCIAL_TAIL">>

\* C7: when no write failed, every save call left a file of its own that
\* holds the content of its run.
C7_OneFilePerRun ==
    (\A i \in DOMAIN writes : writes[i].outcome = "ok") =>
        /\ Cardinality(DOMAIN files) = Len(writes)
        /\ \A i \in DOMAIN writes : files[writes[i].name] = writes[i].content

\* C8: results returned by one instance for the same topic are identical,
\* and every run starts from a mapping that holds topic and style only.
C8_DeterministicIsolated ==
    /\ \A a, b \in returned : a.topic = b.topic => a.result = b.result
    /\ (pc = "running" /\ stage = 1) =>
          /\ DOMAIN known = {"topic", "style"}
          /\ known["topic"] = topic
          /\ known["style"] = <<self.style>>

\* the second run of an instance starts, on a topic the first run returned
\* a mapping for
C8_Witness ==
    /\ path = "lib"
    /\ runs = 2
    /\ pc = "running" /\ stage = 1
    /\ \E r \in returned : r.topic = topic

\* C9: the backend calls of a run are stages 1, 2, 3 in order, each at most
\* once, every call but the last succeeded, and a failed call ends the run
\* in the failed state with the error.
C9_CallPrefix ==
    /\ Len(calls) <= NumStages
    /\ \A i \in DOMAIN calls :
          /\ calls[i].stage = i
          /\ i < Len(calls) => calls[i].ok
    /\ (calls # <<>> /\ ~calls[Len(calls)].ok) =>
          /\ pc = "failed"
          /\ error = "BackendError"
          /\ stage = 0

\* stage 2 failed: two calls, no third
C9_Witness ==
    /\ pc = "failed"
    /\ Len(calls) = 2
    /\ ~calls[2].ok

\* C10: every backend call is made with the configured temperature and the
\* configured max_tokens.
C10_GenerationParameters ==
    \A i \in DOMAIN calls :
        /\ {"temperature", "max_tokens"} \subseteq calls[i].params.passed
        /\ calls[i].params.temperature = TEMPERATURE
        /\ calls[i].params.max_tokens = MAX_TOKENS

====
